---------------------------- MODULE Spec2Model ----------------------------
(***************************************************************************)
(* A model of backend/main.py: the recommendation endpoint                 *)
(* POST /getRecommendation and the pure functions it is built from.        *)
(*                                                                         *)
(* Representation of Python values                                         *)
(*   - A str that the program only compares or copies (org_type, team_size,*)
(*     client_volume, list elements, tier names in the tables) is a TLA+   *)
(*     string.  The source spells four literals with U+2013 EN DASH, which *)
(*     a TLA+ string cannot hold; it is written "-" here ("2-5 providers"  *)
(*     is the source's "2<EN DASH>5 providers").  No two literals of the   *)
(*     source become equal by this.                                        *)
(*   - A str that the program processes character by character (everything *)
(*     that goes through quote) is a sequence of characters.  A character  *)
(*     is a one-character TLA+ string, or the token EnDash for U+2013.     *)
(*   - A list is a sequence, a dict is a function, a tuple is a tuple.     *)
(***************************************************************************)
EXTENDS Integers, Sequences, FiniteSets, TLC

VARIABLES
    pc,        \* "idle" | "handling" | "responded" | "returned"
    body,      \* the JSON body of the request being served
    data,      \* the RecommendationRequest object built from the body
    response,  \* the HTTP response of the request being served
    calls,     \* the functions get_recommendation evaluated for this request
    log,       \* what logging.error wrote for this request
    call       \* a direct call of one of the pure functions, with its result

vars == <<pc, body, data, response, calls, log, call>>

---------------------------------------------------------------------------
(* Bounds of the model *)

\* longest specializations / services list handed directly to determine_recommendation
MaxList == 2
\* longest specializations / services list in a request body
MaxBodyList == 1
\* longest tier string handed directly to generate_streamlit_url
MaxLen == 3
\* largest seat count handed directly to calculate_price / generate_streamlit_url
MaxSeats == 3

---------------------------------------------------------------------------
(* Python built-ins *)

\* x in list
In(x, list) == \E i \in DOMAIN list : list[i] = x

\* dict.get(key, default)
Get(dict, key, default) == IF key \in DOMAIN dict THEN dict[key] ELSE default

\* not s, for a str s
Falsy(s) == s = ""

RECURSIVE Join(_, _)
\* sep.join(parts)
Join(sep, parts) ==
    IF parts = <<>> THEN <<>>
    ELSE IF Len(parts) = 1 THEN parts[1]
    ELSE parts[1] \o sep \o Join(sep, Tail(parts))

Digits == <<"0", "1", "2", "3", "4", "5", "6", "7", "8", "9">>

RECURSIVE NatChars(_)
NatChars(n) ==
    IF n < 10 THEN <<Digits[n + 1]>>
    ELSE NatChars(n \div 10) \o <<Digits[(n % 10) + 1]>>

\* str(n), for an int n
IntChars(n) == IF n < 0 THEN <<"-">> \o NatChars(0 - n) ELSE NatChars(n)

---------------------------------------------------------------------------
(* Characters and their UTF-8 encoding *)

\* U+2013 EN DASH, the one non-ASCII character of the model's alphabet
EnDash == "U+2013"
\* U+FFFD, what bytes.decode(errors="replace") puts for undecodable bytes
Replacement == "U+FFFD"
\* any ASCII character outside the printable range 32..126
Unprintable == "U+00XX"

\* the printable ASCII characters, Ascii[i] being chr(31 + i); the grave accent
\* chr(96), which a TLA+ string cannot hold, is the token "U+0060"
Ascii ==
  <<
    " ", "!", "\"", "#", "$", "%", "&", "'", "(", ")", "*", "+", ",", "-", ".", "/",
    "0", "1", "2", "3", "4", "5", "6", "7", "8", "9", ":", ";", "<", "=", ">", "?",
    "@", "A", "B", "C", "D", "E", "F", "G", "H", "I", "J", "K", "L", "M", "N", "O",
    "P", "Q", "R", "S", "T", "U", "V", "W", "X", "Y", "Z", "[", "\\", "]", "^", "_",
    "U+0060", "a", "b", "c", "d", "e", "f", "g", "h", "i", "j", "k", "l", "m", "n", "o",
    "p", "q", "r", "s", "t", "u", "v", "w", "x", "y", "z", "{", "|", "}", "~"
  >>

Ord(c) == 31 + (CHOOSE i \in DOMAIN Ascii : Ascii[i] = c)

Chr(b) == IF b \in 32..126 THEN Ascii[b - 31] ELSE Unprintable

\* c.encode("utf-8"), for one character
Utf8Encode(c) == IF c = EnDash THEN <<226, 128, 147>> ELSE <<Ord(c)>>

RECURSIVE Utf8EncodeAll(_)
\* s.encode("utf-8")
Utf8EncodeAll(s) ==
    IF s = <<>> THEN <<>> ELSE Utf8Encode(Head(s)) \o Utf8EncodeAll(Tail(s))

RECURSIVE Utf8Decode(_)
\* bs.decode("utf-8", "replace"), for the characters of the model's alphabet
Utf8Decode(bs) ==
    IF bs = <<>> THEN <<>>
    ELSE IF bs[1] < 128 THEN <<Chr(bs[1])>> \o Utf8Decode(Tail(bs))
    ELSE IF Len(bs) >= 3 /\ SubSeq(bs, 1, 3) = <<226, 128, 147>>
         THEN <<EnDash>> \o Utf8Decode(SubSeq(bs, 4, Len(bs)))
    ELSE <<Replacement>> \o Utf8Decode(Tail(bs))

---------------------------------------------------------------------------
(* urllib.parse.quote, which main.py imports and applies to every parameter
   value, and urllib.parse.unquote, its inverse *)

\* the characters quote never encodes: letters, digits and "_.-~"
AlwaysSafe ==
    { Ascii[i] : i \in (17..26) \cup (34..59) \cup (66..91) } \cup {"_", ".", "-", "~"}

\* quote's default argument safe="/"
DefaultSafe == {"/"}

HexDigits ==
    <<"0", "1", "2", "3", "4", "5", "6", "7", "8", "9", "A", "B", "C", "D", "E", "F">>

\* what quote puts for one byte: the byte's character if it is safe, else %XX
Quoter(b, safe) ==
    IF b < 128 /\ Chr(b) \in AlwaysSafe \cup safe
    THEN <<Chr(b)>>
    ELSE <<"%", HexDigits[(b \div 16) + 1], HexDigits[(b % 16) + 1]>>

RECURSIVE QuoteFromBytes(_, _)
QuoteFromBytes(bs, safe) ==
    IF bs = <<>> THEN <<>>
    ELSE Quoter(Head(bs), safe) \o QuoteFromBytes(Tail(bs), safe)

\* a quote that also leaves the sub-delimiters "&()" alone
quote_keeps_subdelims(s) == QuoteFromBytes(Utf8EncodeAll(s), DefaultSafe \cup {"&", "(", ")"})

\* quote(s): the UTF-8 bytes of s, each unsafe byte as %XX
quote(s) == QuoteFromBytes(Utf8EncodeAll(s), DefaultSafe)

\* the hex digits unquote accepts, upper and lower case
HexValue ==
    [c \in {HexDigits[i] : i \in 1..16} \cup {"a", "b", "c", "d", "e", "f"} |->
        IF c \in {HexDigits[i] : i \in 1..16}
        THEN (CHOOSE i \in 1..16 : HexDigits[i] = c) - 1
        ELSE (CHOOSE i \in 11..16 : HexDigits[i] = Chr(Ord(c) - 32)) - 1]

RECURSIVE UnquoteToBytes(_)
\* unquote_to_bytes(s): each %XX with two hex digits is one byte, any other
\* character (a "%" not followed by two hex digits included) stands for itself
UnquoteToBytes(s) ==
    IF s = <<>> THEN <<>>
    ELSE IF /\ Head(s) = "%"
            /\ Len(s) >= 3
            /\ s[2] \in DOMAIN HexValue
            /\ s[3] \in DOMAIN HexValue
         THEN <<HexValue[s[2]] * 16 + HexValue[s[3]]>>
                  \o UnquoteToBytes(SubSeq(s, 4, Len(s)))
    ELSE Utf8Encode(Head(s)) \o UnquoteToBytes(Tail(s))

\* urllib.parse.unquote(s), the inverse of quote that a reader of the link applies
unquote(s) == IF In("%", s) THEN Utf8Decode(UnquoteToBytes(s)) ELSE s

---------------------------------------------------------------------------
(* determine_recommendation *)

LargeTeams == {"16-50 providers", "51+ providers"}

\* the if/elif chain on org_type; <<>> when no branch is taken
base_recommendation(org_type, team_size) ==
    IF org_type = "Insurance Provider / EAS"
    THEN <<"Enterprise Access (Insurance & EAS)", 20>>
    ELSE IF org_type = "Mental Health Practitioner - Private Practice"
    THEN IF team_size \in {"1 (Solo practice)", "2-5 providers"}
         THEN <<"Fresh Start", 4>>
         ELSE IF team_size = "6-15 providers"
         THEN <<"Practice Plus", 8>>
         ELSE <<"Community Access", 16>>
    ELSE IF org_type = "Mental Health or Healthcare Provider - Public System"
    THEN IF team_size \in LargeTeams
         THEN <<"Enterprise Care (Public Health)", 20>>
         ELSE <<"Practice Plus", 6>>
    ELSE IF org_type = "Home Care or Specialized Residential Services"
    THEN <<"Community Access", 20>>
    ELSE <<>>

\* the adjustments with the two tests in the other order
adjusted_group_first(team_size, specializations, services) ==
    IF In("Group therapy or workshops", services) /\ team_size \in LargeTeams
    THEN <<"Community Access", 20>>
    ELSE IF In("Trauma-informed care", specializations)
    THEN <<"Practice Plus", 8>>
    ELSE <<"Community Access", 10>>

\* the adjustments with the group rule for the largest bucket only
adjusted_largest_only(team_size, specializations, services) ==
    IF In("Trauma-informed care", specializations)
    THEN <<"Practice Plus", 8>>
    ELSE IF In("Group therapy or workshops", services) /\ team_size = "51+ providers"
    THEN <<"Community Access", 20>>
    ELSE <<"Community Access", 10>>

\* the adjustments with the seat count of another branch in the fallback
adjusted_fallback_16(team_size, specializations, services) ==
    IF In("Trauma-informed care", specializations)
    THEN <<"Practice Plus", 8>>
    ELSE IF In("Group therapy or workshops", services) /\ team_size \in LargeTeams
    THEN <<"Community Access", 20>>
    ELSE <<"Community Access", 16>>

\* the statements after the chain: specializations, then services, then fallback
adjusted_recommendation(team_size, specializations, services) ==
    IF In("Trauma-informed care", specializations)
    THEN <<"Practice Plus", 8>>
    ELSE IF In("Group therapy or workshops", services) /\ team_size \in LargeTeams
    THEN <<"Community Access", 20>>
    ELSE <<"Community Access", 10>>

\* a determine_recommendation that lets the adjustments override the org_type
determine_adjustments_first(org_type, team_size, client_volume, specializations, services) ==
    IF adjusted_recommendation(team_size, specializations, services) # <<"Community Access", 10>>
    THEN adjusted_recommendation(team_size, specializations, services)
    ELSE IF base_recommendation(org_type, team_size) # <<>>
    THEN base_recommendation(org_type, team_size)
    ELSE <<"Community Access", 10>>

\* a determine_recommendation that consults client_volume
determine_by_volume(org_type, team_size, client_volume, specializations, services) ==
    IF base_recommendation(org_type, team_size) # <<>>
    THEN base_recommendation(org_type, team_size)
    ELSE IF client_volume = "High"
    THEN <<"Community Access", 20>>
    ELSE adjusted_recommendation(team_size, specializations, services)

determine_recommendation(org_type, team_size, client_volume, specializations, services) ==
    IF base_recommendation(org_type, team_size) # <<>>
    THEN base_recommendation(org_type, team_size)
    ELSE adjusted_recommendation(team_size, specializations, services)

---------------------------------------------------------------------------
(* calculate_price *)

\* the pricing dict with one key misspelt
pricing_misspelt ==
    ("Fresh Start" :> 49) @@ ("Practice Plus" :> 89) @@ ("Community Acess" :> 49)
        @@ ("Enterprise Care (Public Health)" :> 199)
        @@ ("Enterprise Access (Insurance & EAS)" :> 199)

pricing ==
    ("Fresh Start" :> 49) @@ ("Practice Plus" :> 89) @@ ("Community Access" :> 49)
        @@ ("Enterprise Care (Public Health)" :> 199)
        @@ ("Enterprise Access (Insurance & EAS)" :> 199)

\* a calculate_price that ignores the table
calculate_price_flat(package, seats) == seats * 49

calculate_price(package, seats) == seats * Get(pricing, package, 49)

---------------------------------------------------------------------------
(* get_features *)

features ==
    ("Fresh Start" :>
        <<"Basic self-guided tools", "AI self-assessment", "1 group session/month",
          "1 report template">>)
    @@ ("Practice Plus" :>
        <<"Full AI suite", "Group modules", "2 sessions/month", "Custom reports",
          "Provider dashboard">>)
    @@ ("Community Access" :>
        <<"Multilingual AI tools", "Scalable group support", "Onboarding support",
          "Usage dashboard", "Volume discounts for 500+ users">>)
    @@ ("Enterprise Care (Public Health)" :>
        <<"Full AI triage", "Post-session care", "Real-time analytics", "API access",
          "Client monitoring & support",
          "Unlimited video, audio, and text-based monitoring tools">>)
    @@ ("Enterprise Access (Insurance & EAS)" :>
        <<"API integration", "Branded self-assessments", "Usage analytics",
          "Employer group modules", "Outcome dashboards", "Unlimited monitoring tools">>)

get_features(package) == Get(features, package, <<>>)

---------------------------------------------------------------------------
(* generate_streamlit_url *)

base_url ==
  <<
    "h", "t", "t", "p", "s", ":", "/", "/", "c", "o", "g", "n", "i", "-", "r", "e",
    "c", "o", "m", "m", "e", "n", "d", "a", "t", "i", "o", "n", "-", "c", "h", "u",
    "i", "v", "5", "x", "8", "s", "l", "z", "x", "k", "t", "q", "3", "m", "z", "b",
    "b", "5", "p", ".", "s", "t", "r", "e", "a", "m", "l", "i", "t", ".", "a", "p", "p"
  >>

\* the params dict, in insertion order, each value after str()
params(package, seats) ==
    << <<(<<"t", "i", "e", "r">>), package>>,
       <<(<<"s", "e", "a", "t", "s">>), IntChars(seats)>>,
       <<(<<"u", "t", "m", "_", "s", "o", "u", "r", "c", "e">>),
         (<<"c", "h", "a", "t", "b", "o", "t">>)>> >>

\* package is the tier name as a sequence of characters
generate_streamlit_url(package, seats) ==
    LET p == params(package, seats)
        query == Join(<<"&">>, [i \in DOMAIN p |-> p[i][1] \o <<"=">> \o quote(p[i][2])])
    IN  base_url \o <<"/", "?">> \o query

\* the characters of each tier name determine_recommendation returns
TierSpelling ==
    ("Fresh Start" :>
      << "F", "r", "e", "s", "h", " ", "S", "t", "a", "r", "t" >>)
    @@ ("Practice Plus" :>
      << "P", "r", "a", "c", "t", "i", "c", "e", " ", "P", "l", "u", "s" >>)
    @@ ("Community Access" :>
      << "C", "o", "m", "m", "u", "n", "i", "t", "y", " ", "A", "c", "c", "e", "s", "s" >>)
    @@ ("Enterprise Care (Public Health)" :>
      << "E", "n", "t", "e", "r", "p", "r", "i", "s", "e", " ", "C", "a", "r", "e", " ",
         "(", "P", "u", "b", "l", "i", "c", " ", "H", "e", "a", "l", "t", "h", ")" >>)
    @@ ("Enterprise Access (Insurance & EAS)" :>
      << "E", "n", "t", "e", "r", "p", "r", "i", "s", "e", " ", "A", "c", "c", "e", "s",
         "s", " ", "(", "I", "n", "s", "u", "r", "a", "n", "c", "e", " ", "&", " ", "E",
         "A", "S", ")" >>)

\* the same str seen as its characters
Spell(package) == TierSpelling[package]

---------------------------------------------------------------------------
(* generate_sales_message *)

\* the values the f-string puts into the template, in the template's order; the
\* template's fixed text between them is the same for every call
generate_sales_message(package, seats, price, d) ==
    LET fs == get_features(package)
        bullets == [i \in DOMAIN fs |-> <<"- ", fs[i]>>]
    IN  <<package, d.org_type, d.team_size, d.client_volume, package, seats, price,
          bullets, generate_streamlit_url(Spell(package), seats)>>

---------------------------------------------------------------------------
(* The inputs the model draws from *)

RecognizedOrgTypes ==
    { "Insurance Provider / EAS",
      "Mental Health Practitioner - Private Practice",
      "Mental Health or Healthcare Provider - Public System",
      "Home Care or Specialized Residential Services" }

OrgTypeInputs == RecognizedOrgTypes \cup {"Other", ""}

TeamSizeInputs ==
    { "1 (Solo practice)", "2-5 providers", "6-15 providers", "16-50 providers",
      "51+ providers", "Other", "" }

ClientVolumeInputs == {"Low", "High", ""}

ListVocabulary == {"Trauma-informed care", "Group therapy or workshops", "Other"}

\* the lists of at most n elements
Lists(n) == UNION { [1..k -> ListVocabulary] : k \in 0..n }

SeatInputs == (-1..MaxSeats) \cup {4, 6, 8, 10, 16, 20}

LinkSeatInputs == {-1, 0, MaxSeats, 20}

TierInputs == DOMAIN TierSpelling \cup {"Unknown Tier", ""}

TierAlphabet == {"A", " ", "&", "(", ")", "%", "/", "=", "#", EnDash}

TierStrings == UNION { [1..k -> TierAlphabet] : k \in 0..MaxLen }

\* a JSON field that may be absent: <<>> when absent, <<v>> when present
Optional(S) == {<<>>} \cup { <<v>> : v \in S }

Bodies ==
    [ org_type : Optional(OrgTypeInputs),
      team_size : Optional(TeamSizeInputs),
      team_roles : {<<>>},
      client_volume : Optional(ClientVolumeInputs),
      services : Optional(Lists(MaxBodyList)),
      specializations : Optional(Lists(MaxBodyList)) ]

---------------------------------------------------------------------------
(* class RecommendationRequest *)

RequiredFields == {"org_type", "team_size", "client_volume"}

\* the object pydantic builds: each absent optional field takes its default []
RecommendationRequest(b) ==
    [ org_type |-> b.org_type[1],
      team_size |-> b.team_size[1],
      team_roles |-> IF b.team_roles = <<>> THEN <<>> ELSE b.team_roles[1],
      client_volume |-> b.client_volume[1],
      services |-> IF b.services = <<>> THEN <<>> ELSE b.services[1],
      specializations |-> IF b.specializations = <<>> THEN <<>> ELSE b.specializations[1] ]

---------------------------------------------------------------------------
(* get_recommendation *)

NoBody ==
    [ org_type |-> <<>>, team_size |-> <<>>, team_roles |-> <<>>, client_volume |-> <<>>,
      services |-> <<>>, specializations |-> <<>> ]

NoData ==
    [ org_type |-> "", team_size |-> "", team_roles |-> <<>>, client_volume |-> "",
      services |-> <<>>, specializations |-> <<>> ]

NoCall == [fn |-> "", args |-> <<>>, result |-> <<>>]

\* a response that carries a status and a detail only
ErrorResponse(status, detail) ==
    [ status |-> status, detail |-> detail,
      recommended_package |-> "", recommended_seats |-> 0, estimated_pricing |-> <<>>,
      key_features |-> <<>>, next_steps |-> <<>>, sales_message |-> <<>> ]

NoResponse == ErrorResponse(0, "")

\* the call with specializations and services in the order of the model's fields
Recommend_swapped(d) ==
    determine_recommendation(d.org_type, d.team_size, d.client_volume,
                             d.services, d.specializations)

\* package, seats = determine_recommendation(...)
Recommend(d) ==
    determine_recommendation(d.org_type, d.team_size, d.client_volume,
                             d.specializations, d.services)

\* The body of the try statement: what it returns, or the exception it raises,
\* and the functions it evaluated on the way.
TryBlock(d) ==
    IF Falsy(d.org_type) \/ Falsy(d.team_size) \/ Falsy(d.client_volume)
    THEN [ raised |-> TRUE,
           exc |-> [type |-> "HTTPException", status_code |-> 422,
                    detail |-> "Missing required fields"],
           value |-> NoResponse,
           calls |-> {} ]
    ELSE LET rec == Recommend(d)
             package == rec[1]
             seats == rec[2]
             price == calculate_price(package, seats)
             streamlit_url == generate_streamlit_url(Spell(package), seats)
         IN  [ raised |-> FALSE,
               exc |-> [type |-> "", status_code |-> 0, detail |-> ""],
               value |->
                 [ status |-> 200, detail |-> "",
                   recommended_package |-> package,
                   recommended_seats |-> seats,
                   estimated_pricing |-> <<"$">> \o IntChars(price),
                   key_features |-> get_features(package),
                   next_steps |-> streamlit_url,
                   sales_message |-> generate_sales_message(package, seats, price, d) ],
               calls |-> { "determine_recommendation", "calculate_price",
                           "generate_streamlit_url", "get_features",
                           "generate_sales_message" } ]

\* str(e) for an HTTPException: "" where the class leaves Exception's __str__
\* without arguments, "<status_code>: <detail>" where it defines __str__
StrOfException(e) ==
    { "", IF e.status_code = 422 THEN "422: Missing required fields" ELSE "error" }

---------------------------------------------------------------------------
(* The state machine *)

Init ==
    /\ pc = "idle"
    /\ body = NoBody
    /\ data = NoData
    /\ response = NoResponse
    /\ calls = {}
    /\ log = <<>>
    /\ call = NoCall

\* A POST /getRecommendation arrives.  FastAPI builds the RecommendationRequest
\* from the body; when a field without a default is absent it answers 422
\* itself and get_recommendation is not called.
Request ==
    /\ pc = "idle"
    /\ \E b \in Bodies :
          /\ body' = b
          /\ IF \E f \in RequiredFields : b[f] = <<>>
             THEN /\ pc' = "responded"
                  /\ response' = ErrorResponse(422, "Field required")
                  /\ data' = NoData
             ELSE /\ pc' = "handling"
                  /\ data' = RecommendationRequest(b)
                  /\ response' = NoResponse
    /\ UNCHANGED <<calls, log, call>>

\* async def get_recommendation(data): the try statement and its except clause.
\* HTTPException is an Exception, so the except clause also catches the
\* HTTPException(422) that the validation raises inside the try.
get_recommendation ==
    /\ pc = "handling"
    /\ LET t == TryBlock(data)
       IN  /\ calls' = t.calls
           /\ IF t.raised
              THEN \E msg \in StrOfException(t.exc) :
                      /\ log' = <<"Recommendation error: ", msg>>
                      /\ response' = ErrorResponse(500, msg)
              ELSE /\ log' = <<>>
                   /\ response' = t.value
    /\ pc' = "responded"
    /\ UNCHANGED <<body, data, call>>

\* direct calls of the pure functions
Call_determine_recommendation ==
    /\ pc = "idle"
    /\ \E org_type \in OrgTypeInputs, team_size \in TeamSizeInputs,
          client_volume \in ClientVolumeInputs,
          specializations \in Lists(MaxList), services \in Lists(MaxList) :
          call' = [ fn |-> "determine_recommendation",
                    args |-> <<org_type, team_size, client_volume, specializations,
                               services>>,
                    result |-> determine_recommendation(org_type, team_size,
                                   client_volume, specializations, services) ]
    /\ pc' = "returned"
    /\ UNCHANGED <<body, data, response, calls, log>>

Call_calculate_price ==
    /\ pc = "idle"
    /\ \E package \in TierInputs, seats \in SeatInputs :
          call' = [ fn |-> "calculate_price",
                    args |-> <<package, seats>>,
                    result |-> calculate_price(package, seats) ]
    /\ pc' = "returned"
    /\ UNCHANGED <<body, data, response, calls, log>>

Call_generate_streamlit_url ==
    /\ pc = "idle"
    /\ \E package \in TierStrings, seats \in LinkSeatInputs :
          call' = [ fn |-> "generate_streamlit_url",
                    args |-> <<package, seats>>,
                    result |-> generate_streamlit_url(package, seats) ]
    /\ pc' = "returned"
    /\ UNCHANGED <<body, data, response, calls, log>>

\* uvicorn.run: the response has been sent, or the call has returned; the
\* server waits for the next request
Serve ==
    /\ pc \in {"responded", "returned"}
    /\ pc' = "idle"
    /\ body' = NoBody
    /\ data' = NoData
    /\ response' = NoResponse
    /\ calls' = {}
    /\ log' = <<>>
    /\ call' = NoCall

Next ==
    \/ Request
    \/ get_recommendation
    \/ Call_determine_recommendation
    \/ Call_calculate_price
    \/ Call_generate_streamlit_url
    \/ Serve

Spec == Init /\ [][Next]_vars

---------------------------------------------------------------------------
(* What the properties below are stated with *)

Trauma == "Trauma-informed care"
GroupTherapy == "Group therapy or workshops"

FiveTiers ==
    { "Fresh Start", "Practice Plus", "Community Access",
      "Enterprise Care (Public Health)", "Enterprise Access (Insurance & EAS)" }

\* the rule table for the four recognized organization categories, as stated
RuleTable(org_type, team_size) ==
    CASE org_type = "Insurance Provider / EAS" ->
           <<"Enterprise Access (Insurance & EAS)", 20>>
      [] org_type = "Mental Health Practitioner - Private Practice" ->
           ( CASE team_size = "1 (Solo practice)" -> <<"Fresh Start", 4>>
               [] team_size = "2-5 providers" -> <<"Fresh Start", 4>>
               [] team_size = "6-15 providers" -> <<"Practice Plus", 8>>
               [] OTHER -> <<"Community Access", 16>> )
      [] org_type = "Mental Health or Healthcare Provider - Public System" ->
           ( CASE team_size = "16-50 providers" -> <<"Enterprise Care (Public Health)", 20>>
               [] team_size = "51+ providers" -> <<"Enterprise Care (Public Health)", 20>>
               [] OTHER -> <<"Practice Plus", 6>> )
      [] org_type = "Home Care or Specialized Residential Services" ->
           <<"Community Access", 20>>

\* the per-seat rates, as stated
StatedRate(tier) ==
    CASE tier = "Fresh Start" -> 49
      [] tier = "Practice Plus" -> 89
      [] tier = "Community Access" -> 49
      [] tier = "Enterprise Care (Public Health)" -> 199
      [] tier = "Enterprise Access (Insurance & EAS)" -> 199
      [] OTHER -> 49

\* a direct call of determine_recommendation has returned
Determined == pc = "returned" /\ call.fn = "determine_recommendation"

\* the endpoint has answered with a success response
Succeeded == pc = "responded" /\ response.status = 200

\* the endpoint has answered a request whose three required fields are non-empty
AnsweredComplete ==
    /\ pc = "responded"
    /\ \A f \in RequiredFields : body[f] # <<>> /\ body[f] # <<"">>

\* the endpoint has answered a request with a required field absent or empty
AnsweredIncomplete ==
    /\ pc = "responded"
    /\ \E f \in RequiredFields : body[f] = <<>> \/ body[f] = <<"">>

\* first index of character c in s, 0 when there is none
IndexOf(s, c) == IF In(c, s) THEN CHOOSE i \in DOMAIN s : s[i] = c /\ \A j \in 1..(i - 1) : s[j] # c ELSE 0

Count(s, c) == Cardinality({ i \in DOMAIN s : s[i] = c })

RECURSIVE SplitOn(_, _)
\* s.split(c)
SplitOn(s, c) ==
    IF IndexOf(s, c) = 0 THEN <<s>>
    ELSE <<SubSeq(s, 1, IndexOf(s, c) - 1)>> \o SplitOn(SubSeq(s, IndexOf(s, c) + 1, Len(s)), c)

\* the query of a URL: what follows the first "?", up to a "#" if there is one
QueryOf(url) ==
    LET noFragment == IF IndexOf(url, "#") = 0 THEN url ELSE SubSeq(url, 1, IndexOf(url, "#") - 1)
    IN  IF IndexOf(noFragment, "?") = 0 THEN <<>>
        ELSE SubSeq(noFragment, IndexOf(noFragment, "?") + 1, Len(noFragment))

\* the parameters of a URL's query, each a <<name, percent-decoded value>>
QueryParams(url) ==
    LET fields == SplitOn(QueryOf(url), "&")
    IN  [ i \in DOMAIN fields |->
            IF IndexOf(fields[i], "=") = 0 THEN <<fields[i], <<>>>>
            ELSE << SubSeq(fields[i], 1, IndexOf(fields[i], "=") - 1),
                    unquote(SubSeq(fields[i], IndexOf(fields[i], "=") + 1, Len(fields[i]))) >> ]

\* url carries exactly tier, seats and utm_source, tier and seats decode to the
\* given values, and no space, "&", "(" or ")" of the tier is left unencoded
LinkRoundTrips(url, tier, seats) ==
    LET q == QueryParams(url)
    IN  /\ Len(q) = 3
        /\ q[1] = << <<"t", "i", "e", "r">>, tier >>
        /\ q[2] = << <<"s", "e", "a", "t", "s">>, IntChars(seats) >>
        /\ q[3][1] = <<"u", "t", "m", "_", "s", "o", "u", "r", "c", "e">>
        /\ Count(url, "&") = 2
        /\ Count(url, " ") = 0
        /\ Count(url, "(") = 0
        /\ Count(url, ")") = 0

---------------------------------------------------------------------------
(* Properties *)

\* C1: for an org_type of the four recognized categories determine_recommendation
\* returns the pair of the rule table, whatever specializations and services hold;
\* the same pair is the one the endpoint answers with.
C1_RecognizedOrgTypeFollowsTable ==
    /\ (Determined /\ call.args[1] \in RecognizedOrgTypes)
          => call.result = RuleTable(call.args[1], call.args[2])
    /\ (Succeeded /\ data.org_type \in RecognizedOrgTypes)
          => <<response.recommended_package, response.recommended_seats>>
                = RuleTable(data.org_type, data.team_size)

\* C1 witness: a Private Practice call with a large team, trauma-informed care and
\* group therapy present, answered from the table
C1_Witness ==
    /\ Determined
    /\ call.args[1] = "Mental Health Practitioner - Private Practice"
    /\ call.args[2] = "51+ providers"
    /\ In(Trauma, call.args[4])
    /\ In(GroupTherapy, call.args[5])
    /\ call.result = <<"Community Access", 16>>

\* C2: a request with org_type, team_size or client_volume missing or empty is
\* answered 422 and none of the five functions is evaluated.
C2_IncompleteRequestGets422 ==
    AnsweredIncomplete => (response.status = 422 /\ calls = {})

\* C3: for an unrecognized org_type with trauma-informed care among the
\* specializations the pair is (Practice Plus, 8), whatever the other fields hold.
C3_TraumaGivesPracticePlus ==
    /\ (Determined /\ call.args[1] \notin RecognizedOrgTypes /\ In(Trauma, call.args[4]))
          => call.result = <<"Practice Plus", 8>>
    /\ (Succeeded /\ data.org_type \notin RecognizedOrgTypes /\ In(Trauma, data.specializations))
          => /\ response.recommended_package = "Practice Plus"
             /\ response.recommended_seats = 8

\* C3 witness: trauma-informed care together with group therapy and a large team
C3_Witness ==
    /\ Determined
    /\ call.args[1] = "Other"
    /\ call.args[2] \in {"16-50 providers", "51+ providers"}
    /\ In(Trauma, call.args[4])
    /\ In(GroupTherapy, call.args[5])
    /\ call.result = <<"Practice Plus", 8>>

\* C4: for an unrecognized org_type without trauma-informed care, with group
\* therapy among the services and one of the two largest team sizes, the pair is
\* (Community Access, 20).
C4_GroupTherapyLargeTeam ==
    /\ ( /\ Determined
         /\ call.args[1] \notin RecognizedOrgTypes
         /\ ~In(Trauma, call.args[4])
         /\ In(GroupTherapy, call.args[5])
         /\ call.args[2] \in {"16-50 providers", "51+ providers"} )
          => call.result = <<"Community Access", 20>>
    /\ ( /\ Succeeded
         /\ data.org_type \notin RecognizedOrgTypes
         /\ ~In(Trauma, data.specializations)
         /\ In(GroupTherapy, data.services)
         /\ data.team_size \in {"16-50 providers", "51+ providers"} )
          => /\ response.recommended_package = "Community Access"
             /\ response.recommended_seats = 20

\* C4 witness: the smaller of the two large buckets
C4_Witness ==
    /\ Determined
    /\ call.args[1] = "Other"
    /\ call.args[2] = "16-50 providers"
    /\ ~In(Trauma, call.args[4])
    /\ In(GroupTherapy, call.args[5])
    /\ call.result = <<"Community Access", 20>>

\* C5: determine_recommendation returns a (tier, seats) pair for every input, and
\* for an unrecognized org_type that matches neither the trauma rule nor the
\* group-therapy-with-large-team rule the pair is (Community Access, 10).
C5_TotalWithFallback ==
    Determined =>
        /\ Len(call.result) = 2
        /\ call.result[1] \in FiveTiers
        /\ call.result[2] \in Nat
        /\ ( /\ call.args[1] \notin RecognizedOrgTypes
             /\ ~In(Trauma, call.args[4])
             /\ ~( /\ In(GroupTherapy, call.args[5])
                   /\ call.args[2] \in {"16-50 providers", "51+ providers"} ) )
              => call.result = <<"Community Access", 10>>

\* C5 witness: every string empty and both lists empty
C5_Witness ==
    /\ Determined
    /\ call.args = <<"", "", "", <<>>, <<>>>>
    /\ call.result = <<"Community Access", 10>>

\* C6: requests that differ only in a non-empty client_volume get the same pair,
\* and the same package, seats, pricing, features and link from the endpoint.
C6_ClientVolumeIgnored ==
    /\ Determined =>
          \A v \in ClientVolumeInputs \ {""} :
              determine_recommendation(call.args[1], call.args[2], v,
                                       call.args[4], call.args[5]) = call.result
    /\ Succeeded =>
          \A v \in ClientVolumeInputs \ {""} :
              LET other == TryBlock([data EXCEPT !.client_volume = v]).value
              IN  /\ other.status = 200
                  /\ other.recommended_package = response.recommended_package
                  /\ other.recommended_seats = response.recommended_seats
                  /\ other.estimated_pricing = response.estimated_pricing
                  /\ other.key_features = response.key_features
                  /\ other.next_steps = response.next_steps

\* C6 witness: a success response to a request with client_volume "High" that
\* reached the fallback
C6_Witness ==
    /\ Succeeded
    /\ data.client_volume = "High"
    /\ data.org_type = "Other"
    /\ response.recommended_seats = 10

\* C7: calculate_price(tier, seats) is seats times the stated rate of the tier,
\* and seats times 49 for a tier that is not in the table.
C7_PriceIsSeatsTimesRate ==
    (pc = "returned" /\ call.fn = "calculate_price")
        => call.result = call.args[2] * StatedRate(call.args[1])

\* C7 witness: an unknown tier priced at the default rate
C7_Witness ==
    /\ pc = "returned"
    /\ call.fn = "calculate_price"
    /\ call.args = <<"Unknown Tier", 3>>
    /\ call.result = 147

\* C8: the tier and seats parameters of the link decode to the tier string and
\* the seat count given, the query splits into exactly tier, seats and
\* utm_source, and no space, "&", "(" or ")" is left unencoded.
C8_LinkRoundTrip ==
    /\ (pc = "returned" /\ call.fn = "generate_streamlit_url")
          => LinkRoundTrips(call.result, call.args[1], call.args[2])
    /\ Succeeded
          => LinkRoundTrips(response.next_steps, Spell(response.recommended_package),
                            response.recommended_seats)

\* C8 witness: the link of the tier whose name holds spaces, parentheses and "&"
C8_Witness ==
    /\ Succeeded
    /\ response.recommended_package = "Enterprise Access (Insurance & EAS)"
    /\ Count(response.next_steps, "%") = 7

\* C9: a request whose three required fields are non-empty gets a success
\* response built from the pair determine_recommendation chooses for it: the
\* price is "$" and seats times the package's rate, the features are the
\* package's, the link is built from the same package and seats.
C9_CompleteRequestSucceeds ==
    AnsweredComplete =>
        /\ response.status = 200
        /\ <<response.recommended_package, response.recommended_seats>>
              = determine_recommendation(data.org_type, data.team_size, data.client_volume,
                                         data.specializations, data.services)
        /\ response.estimated_pricing
              = <<"$">> \o IntChars(response.recommended_seats
                                      * StatedRate(response.recommended_package))
        /\ response.key_features = features[response.recommended_package]
        /\ response.next_steps
              = generate_streamlit_url(Spell(response.recommended_package),
                                       response.recommended_seats)
        /\ data.org_type = "Insurance Provider / EAS"
              => /\ response.recommended_seats = 20
                 /\ response.estimated_pricing = <<"$", "3", "9", "8", "0">>
        /\ ( /\ data.org_type = "Mental Health Practitioner - Private Practice"
             /\ data.team_size = "2-5 providers" )
              => /\ response.recommended_package = "Fresh Start"
                 /\ response.recommended_seats = 4
                 /\ response.estimated_pricing = <<"$", "1", "9", "6">>
        /\ (data.org_type \notin RecognizedOrgTypes /\ In(Trauma, data.specializations))
              => /\ response.recommended_package = "Practice Plus"
                 /\ response.recommended_seats = 8
                 /\ response.estimated_pricing = <<"$", "7", "1", "2">>

\* C9 witness: an unrecognized org_type with trauma-informed care, priced 712
C9_Witness ==
    /\ AnsweredComplete
    /\ data.org_type = "Other"
    /\ data.specializations = <<Trauma>>
    /\ response.estimated_pricing = <<"$", "7", "1", "2">>

\* C10: every pair determine_recommendation returns has one of the five tiers
\* and a positive seat count, the tier is in the pricing and the feature table,
\* and no success response is priced at the default rate of an unknown tier or
\* carries an empty feature list.
C10_TierClosedAndTabled ==
    /\ Determined =>
          /\ call.result[1] \in FiveTiers
          /\ call.result[2] > 0
          /\ call.result[1] \in DOMAIN pricing
          /\ call.result[1] \in DOMAIN features
    /\ Succeeded =>
          /\ response.recommended_package \in FiveTiers
          /\ response.recommended_seats > 0
          /\ response.recommended_package \in DOMAIN pricing
          /\ response.key_features # <<>>

\* C10 witness: a success response carrying the fallback pair
C10_Witness ==
    /\ Succeeded
    /\ response.recommended_package = "Community Access"
    /\ response.recommended_seats = 10
    /\ Len(response.key_features) = 5

=============================================================================
